---- MODULE Spec2Model ----
(***************************************************************************)
(* The conversation state controller of the chat client (the App           *)
(* component): the message list, the loading and error flags, the          *)
(* location banner flags, and the asynchronous send whose gateway call     *)
(* suspends between appending the user message and appending the reply.    *)
(***************************************************************************)
EXTENDS Integers, Sequences, FiniteSets, TLC

(* Optional values (null / undefined in the source) are sets of at most    *)
(* one element.                                                            *)
None == {}
Some(v) == {v}

\* ------------------------------------------------------------------ bounds
MaxSends == 2       \* handleSend calls per session
MaxClock == 1       \* last value of the millisecond clock

\* ------------------------------------------------------- program constants
HistoryWindow == 5  \* messages.slice(-5)

DefaultPreferences == [name |-> "User", communicationStyle |-> "friendly and helpful"]

\* ------------------------------------------------------------------ inputs
Texts == {"hello"}
Images == {None}
PreferenceChoices == {DefaultPreferences, [name |-> "Ana", communicationStyle |-> "terse"]}
Coordinates == [latitude |-> 52, longitude |-> 13]
DeniedText == "Location access denied by user."
UnavailableText == "Location unavailable."

(* What the location provider delivers: coordinates, or an error string.   *)
LocationResults ==
  { [location |-> Some(Coordinates), locationError |-> None],
    [location |-> None, locationError |-> Some(DeniedText)],
    [location |-> None, locationError |-> Some(UnavailableText)] }

(* How a gateway call ends: it returns the completion text, it throws an   *)
(* Error carrying a message, or it throws a value that is not an Error.    *)
GatewayOutcomes ==
  { [kind |-> "text", payload |-> "Hi there"],
    [kind |-> "Error", payload |-> "Network down"],
    [kind |-> "thrown", payload |-> "quota"] }

VARIABLES
  messages,                   \* useLocalStorage('chatHistory')
  preferences,                \* useLocalStorage('userPrefs')
  isLoading,
  isSettingsOpen,
  error,
  location,
  locationError,
  isLocationBannerDismissed,
  showLocationInstructions,
  closure,                    \* what the rendered handleSend closes over
  pending,                    \* gateway calls awaiting their response
  clock,                      \* the last value read from Date.now()
  nCalls,                     \* handleSend calls made so far
  origin,                     \* for each message, the call that appended it
  storage,                    \* the browser's store: what is under each key
  storeAvailable              \* whether the browser's store can be used

vars == << messages, preferences, isLoading, isSettingsOpen, error, location,
           locationError, isLocationBannerDismissed, showLocationInstructions,
           closure, pending, clock, nCalls, origin, storage, storeAvailable >>

\* ----------------------------------------------------------------- helpers
Max(a, b) == IF a > b THEN a ELSE b
Min(a, b) == IF a < b THEN a ELSE b

(* Array.prototype.slice(start) with the end omitted: a negative start     *)
(* counts from the end, and the start is clamped to the array.             *)
slice(arr, start) ==
  LET len == Len(arr)
      from == IF start < 0 THEN Max(len + start, 0) ELSE Min(start, len)
  IN SubSeq(arr, from + 1, len)

(* String.prototype.includes.                                              *)
includes(str, sub) ==
  \E i \in 1..(Len(str) - Len(sub) + 1) : SubSeq(str, i, i + Len(sub) - 1) = sub

(* Date.prototype.toISOString of the clock value.                          *)
toISOString(t) == "1970-01-01T00:00:00." \o ToString(t) \o "Z"

(* A chat history left in storage by an earlier session: n messages,       *)
(* user and ai in turn, created before this session's clock started (the   *)
(* clock counts from the start of the session, so their ids are negative). *)
StoredMessage(i, n) ==
  [ id |-> i - n - 1,
    text |-> IF i % 2 = 1 THEN "earlier question" ELSE "earlier answer",
    sender |-> IF i % 2 = 1 THEN "user" ELSE "ai",
    timestamp |-> "1969-12-31T23:59:59.000Z",
    image |-> None,
    isError |-> None ]

StoredHistory(n) == [i \in 1..n |-> StoredMessage(i, n)]

(* Startup finds no history, one shorter than the window sent to the       *)
(* gateway, or one longer than it.                                         *)
StoredLengths == {0, HistoryWindow - 1, HistoryWindow + 1}

\* ------------------------------------------------------------- the storage
(* What the browser's store holds under a key: nothing, a text that is not *)
(* a serialized value, or the serialization of a value.                    *)
Absent == [kind |-> "absent"]
Malformed == [kind |-> "malformed"]
Json(doc) == [kind |-> "json", value |-> doc]

(* JSON.stringify of a Message: a key whose value is undefined is left     *)
(* out of the object.                                                      *)
stringifyMessage(m) ==
  LET keys == {"id", "text", "sender", "timestamp"}
                \cup (IF m.image # None THEN {"image"} ELSE {})
                \cup (IF m.isError # None THEN {"isError"} ELSE {})
  IN [ k \in keys |->
         CASE k = "id" -> m.id
           [] k = "text" -> m.text
           [] k = "sender" -> m.sender
           [] k = "timestamp" -> m.timestamp
           [] k = "image" -> (CHOOSE v \in m.image : TRUE)
           [] k = "isError" -> (CHOOSE v \in m.isError : TRUE) ]

(* JSON.parse of a Message: a key the object lacks reads as undefined.     *)
parseMessage(doc) ==
  [ id |-> doc["id"],
    text |-> doc["text"],
    sender |-> doc["sender"],
    timestamp |-> doc["timestamp"],
    image |-> IF "image" \in DOMAIN doc THEN Some(doc["image"]) ELSE None,
    isError |-> IF "isError" \in DOMAIN doc THEN Some(doc["isError"]) ELSE None ]

stringifyMessages(list) == [i \in 1..Len(list) |-> stringifyMessage(list[i])]
parseMessages(doc) == [i \in 1..Len(doc) |-> parseMessage(doc[i])]

stringifyPreferences(p) ==
  [ k \in {"name", "communicationStyle"} |->
      IF k = "name" THEN p.name ELSE p.communicationStyle ]
parsePreferences(doc) ==
  [name |-> doc["name"], communicationStyle |-> doc["communicationStyle"]]

(* The read at startup: the value under the key, or the default when the   *)
(* store cannot be used, holds nothing under the key, or holds a text      *)
(* that does not parse.                                                    *)
storedMessages(store) ==
  IF storeAvailable /\ store.chatHistory.kind = "json"
    THEN parseMessages(store.chatHistory.value)
    ELSE << >>

storedPreferences(store) ==
  IF storeAvailable /\ store.userPrefs.kind = "json"
    THEN parsePreferences(store.userPrefs.value)
    ELSE DefaultPreferences

(* The write of the hook's setter: the serialized value replaces what is   *)
(* under the key; a store that cannot be used keeps nothing, and the       *)
(* failure is absorbed.                                                    *)
setValue(store, key, doc) ==
  IF storeAvailable THEN [store EXCEPT ![key] = Json(doc)] ELSE store

\* ------------------------------------------------------------ the messages
(* addMessage written as [message, ...prev].                               *)
addMessageFirst(prev, message) == << message >> \o prev

(* addMessage written to keep the list at its length once it is not empty.*)
addMessageDropOldest(prev, message) ==
  IF prev = << >> THEN << message >> ELSE Append(Tail(prev), message)

(* addMessage: setMessages(prev => [...prev, message]).                    *)
addMessage(prev, message) == Append(prev, message)

userMessage(text, imageBase64, now) ==
  [ id |-> now,
    text |-> text,
    sender |-> "user",
    timestamp |-> toISOString(now),
    image |-> imageBase64,
    isError |-> None ]

aiMessage(aiResponseText, now) ==
  [ id |-> now + 1,
    text |-> aiResponseText,
    sender |-> "ai",
    timestamp |-> toISOString(now),
    image |-> None,
    isError |-> None ]

errorMsg(errorMessage, now) ==
  [ id |-> now + 1,
    text |-> "Sorry, I encountered an error. Please try again. (" \o errorMessage \o ")",
    sender |-> "ai",
    timestamp |-> toISOString(now),
    image |-> None,
    isError |-> Some(TRUE) ]

(* errorMessage with the instanceof test never succeeding.                 *)
errorMessageOfUnknown(outcome) == "An unknown error occurred."

(* err instanceof Error ? err.message : 'An unknown error occurred.'       *)
errorMessageOf(outcome) ==
  IF outcome.kind = "Error" THEN outcome.payload ELSE "An unknown error occurred."

errorText(errorMessage) == "Failed to get response from AI: " \o errorMessage

(* recentHistory written as messages.slice(0, 5).                          *)
recentHistoryOldest(closedOver) ==
  SubSeq(closedOver, 1, Min(HistoryWindow, Len(closedOver)))

(* const recentHistory = messages.slice(-5), on the closed-over list.      *)
recentHistory(closedOver) == slice(closedOver, 0 - HistoryWindow)

(* showLocationBanner without the test of the dismissal.                   *)
showLocationBannerUndismissable(locErr, dismissed) ==
  /\ locErr # None
  /\ \A e \in locErr : includes(e, "denied")

(* locationError?.includes('denied') && !isLocationBannerDismissed         *)
showLocationBannerOf(locErr, dismissed) ==
  /\ locErr # None
  /\ \A e \in locErr : includes(e, "denied")
  /\ ~dismissed

showLocationBanner == showLocationBannerOf(locationError, isLocationBannerDismissed)

(* The inline text shown for every location error.                         *)
showInlineLocationErrorAny(locErr) ==
  /\ locErr # None
  /\ \A e \in locErr : e # ""

(* locationError && !locationError.includes('denied')                      *)
showInlineLocationErrorOf(locErr) ==
  /\ locErr # None
  /\ \A e \in locErr : e # "" /\ ~includes(e, "denied")

showInlineLocationError == showInlineLocationErrorOf(locationError)

\* -------------------------------------------------------------------- Init
Init ==
  /\ storeAvailable = TRUE
  /\ storage \in
       { [ chatHistory |-> Json(stringifyMessages(StoredHistory(n))),
           userPrefs |-> Json(stringifyPreferences(DefaultPreferences)) ] :
         n \in StoredLengths }
  /\ messages = storedMessages(storage)
  /\ preferences = storedPreferences(storage)
  /\ isLoading = FALSE
  /\ isSettingsOpen = FALSE
  /\ error = None
  /\ location = None
  /\ locationError = None
  /\ isLocationBannerDismissed = FALSE
  /\ showLocationInstructions = FALSE
  /\ closure = [messages |-> messages, preferences |-> preferences, location |-> location]
  /\ pending = {}
  /\ clock = 0
  /\ nCalls = 0
  /\ origin = [i \in 1..Len(messages) |-> 0]

(* handleSend memoized on [messages, setMessages] only: the preferences   *)
(* and the location it closes over stay those of the first render.         *)
RenderMessagesOnly ==
  closure' = [messages |-> messages', preferences |-> closure.preferences,
              location |-> closure.location]

(* Every state update re-renders the component before the next event is    *)
(* handled; the render re-creates handleSend over the new messages,        *)
(* preferences and location (the dependencies of its useCallback).         *)
Render ==
  closure' = [messages |-> messages', preferences |-> preferences', location |-> location']

(* What setMessages hands to an updater function: the current list.        *)
updaterArgument == messages

\* ----------------------------------------------------------------- actions
(* handleSend up to the await of the gateway call.                         *)
handleSend(text, imageBase64, now) ==
  /\ nCalls < MaxSends
  /\ clock' = now
  /\ error' = None
  /\ messages' = addMessage(updaterArgument, userMessage(text, imageBase64, now))
  /\ isLoading' = TRUE
  /\ pending' = pending \cup
       { [ call |-> nCalls + 1,
           text |-> text,
           imageBase64 |-> imageBase64,
           recentHistory |-> recentHistory(closure.messages),
           preferences |-> closure.preferences,
           location |-> closure.location ] }
  /\ nCalls' = nCalls + 1
  /\ origin' = Append(origin, nCalls + 1)
  /\ storage' = setValue(storage, "chatHistory", stringifyMessages(messages'))
  /\ UNCHANGED << preferences, isSettingsOpen, location, locationError,
                  isLocationBannerDismissed, showLocationInstructions,
                  storeAvailable >>
  /\ Render

(* handleSend with setIsLoading(false) at the end of the try block and no  *)
(* finally.                                                                *)
handleResponseNoFinally(call, outcome, now) ==
  /\ call \in pending
  /\ pending' = pending \ {call}
  /\ clock' = now
  /\ IF outcome.kind = "text"
       THEN /\ messages' = addMessage(updaterArgument, aiMessage(outcome.payload, now))
            /\ error' = error
            /\ isLoading' = FALSE
       ELSE /\ error' = Some(errorText(errorMessageOf(outcome)))
            /\ messages' = addMessage(updaterArgument, errorMsg(errorMessageOf(outcome), now))
            /\ isLoading' = isLoading
  /\ origin' = Append(origin, call.call)
  /\ storage' = setValue(storage, "chatHistory", stringifyMessages(messages'))
  /\ UNCHANGED << preferences, isSettingsOpen, location, locationError,
                  isLocationBannerDismissed, showLocationInstructions, nCalls,
                  storeAvailable >>
  /\ closure' = [messages |-> messages', preferences |-> preferences', location |-> location']

(* handleSend with the catch block writing setMessages([errorMsg]).         *)
handleResponseCatchReplaces(call, outcome, now) ==
  /\ call \in pending
  /\ pending' = pending \ {call}
  /\ clock' = now
  /\ IF outcome.kind = "text"
       THEN /\ messages' = addMessage(updaterArgument, aiMessage(outcome.payload, now))
            /\ origin' = Append(origin, call.call)
            /\ error' = error
       ELSE /\ error' = Some(errorText(errorMessageOf(outcome)))
            /\ messages' = << errorMsg(errorMessageOf(outcome), now) >>
            /\ origin' = << call.call >>
  /\ isLoading' = FALSE
  /\ storage' = setValue(storage, "chatHistory", stringifyMessages(messages'))
  /\ UNCHANGED << preferences, isSettingsOpen, location, locationError,
                  isLocationBannerDismissed, showLocationInstructions, nCalls,
                  storeAvailable >>
  /\ closure' = [messages |-> messages', preferences |-> preferences', location |-> location']

(* handleSend with a catch block that sets the error field and adds no    *)
(* message.                                                                *)
handleResponseNoErrorMessage(call, outcome, now) ==
  /\ call \in pending
  /\ pending' = pending \ {call}
  /\ clock' = now
  /\ IF outcome.kind = "text"
       THEN /\ messages' = addMessage(updaterArgument, aiMessage(outcome.payload, now))
            /\ origin' = Append(origin, call.call)
            /\ error' = error
       ELSE /\ error' = Some(errorText(errorMessageOf(outcome)))
            /\ messages' = messages
            /\ origin' = origin
  /\ isLoading' = FALSE
  /\ storage' = setValue(storage, "chatHistory", stringifyMessages(messages'))
  /\ UNCHANGED << preferences, isSettingsOpen, location, locationError,
                  isLocationBannerDismissed, showLocationInstructions, nCalls,
                  storeAvailable >>
  /\ closure' = [messages |-> messages', preferences |-> preferences', location |-> location']

(* handleSend from the gateway's answer on: try, catch and finally.        *)
handleResponse(call, outcome, now) ==
  /\ call \in pending
  /\ pending' = pending \ {call}
  /\ clock' = now
  /\ IF outcome.kind = "text"
       THEN /\ messages' = addMessage(updaterArgument, aiMessage(outcome.payload, now))
            /\ error' = error
       ELSE /\ error' = Some(errorText(errorMessageOf(outcome)))
            /\ messages' = addMessage(updaterArgument, errorMsg(errorMessageOf(outcome), now))
  /\ isLoading' = FALSE
  /\ origin' = Append(origin, call.call)
  /\ storage' = setValue(storage, "chatHistory", stringifyMessages(messages'))
  /\ UNCHANGED << preferences, isSettingsOpen, location, locationError,
                  isLocationBannerDismissed, showLocationInstructions, nCalls,
                  storeAvailable >>
  /\ Render

(* clearHistory also returning the controller to Idle.                     *)
clearHistoryResets ==
  /\ messages' = << >>
  /\ origin' = << >>
  /\ isLoading' = FALSE
  /\ error' = None
  /\ storage' = setValue(storage, "chatHistory", stringifyMessages(messages'))
  /\ UNCHANGED << preferences, isSettingsOpen, location, locationError,
                  isLocationBannerDismissed, showLocationInstructions, pending,
                  clock, nCalls,
                  storeAvailable >>
  /\ closure' = [messages |-> messages', preferences |-> preferences', location |-> location']

(* clearHistory emptying the list in memory only, with no write to the     *)
(* store.                                                                  *)
clearHistoryInMemory ==
  /\ messages' = << >>
  /\ origin' = << >>
  /\ UNCHANGED << preferences, isLoading, isSettingsOpen, error, location,
                  locationError, isLocationBannerDismissed,
                  showLocationInstructions, pending, clock, nCalls, storage,
                  storeAvailable >>
  /\ closure' = [messages |-> messages', preferences |-> preferences', location |-> location']

clearHistory ==
  /\ messages' = << >>
  /\ origin' = << >>
  /\ storage' = setValue(storage, "chatHistory", stringifyMessages(messages'))
  /\ UNCHANGED << preferences, isLoading, isSettingsOpen, error, location,
                  locationError, isLocationBannerDismissed,
                  showLocationInstructions, pending, clock, nCalls,
                  storeAvailable >>
  /\ Render

dismissBanner ==
  /\ showLocationBanner
  /\ isLocationBannerDismissed' = TRUE
  /\ UNCHANGED << messages, preferences, isLoading, isSettingsOpen, error,
                  location, locationError, showLocationInstructions, closure,
                  pending, clock, nCalls, origin,
                  storage, storeAvailable >>

(* The instructions button wired to the setter of the dismissal.          *)
toggleInstructionsWrongFlag ==
  /\ showLocationBanner
  /\ isLocationBannerDismissed' = ~isLocationBannerDismissed
  /\ UNCHANGED << messages, preferences, isLoading, isSettingsOpen, error,
                  location, locationError, showLocationInstructions, closure,
                  pending, clock, nCalls, origin, storage, storeAvailable >>

toggleInstructions ==
  /\ showLocationBanner
  /\ showLocationInstructions' = ~showLocationInstructions
  /\ UNCHANGED << messages, preferences, isLoading, isSettingsOpen, error,
                  location, locationError, isLocationBannerDismissed, closure,
                  pending, clock, nCalls, origin,
                  storage, storeAvailable >>

openSettings ==
  /\ isSettingsOpen' = TRUE
  /\ UNCHANGED << messages, preferences, isLoading, error, location,
                  locationError, isLocationBannerDismissed,
                  showLocationInstructions, closure, pending, clock, nCalls,
                  origin,
                  storage, storeAvailable >>

closeSettings ==
  /\ isSettingsOpen' = FALSE
  /\ UNCHANGED << messages, preferences, isLoading, error, location,
                  locationError, isLocationBannerDismissed,
                  showLocationInstructions, closure, pending, clock, nCalls,
                  origin,
                  storage, storeAvailable >>

(* The settings saved in memory only, with no write to the store.          *)
savePreferencesUnpersisted(p) ==
  /\ isSettingsOpen
  /\ preferences' = p
  /\ UNCHANGED << messages, isLoading, isSettingsOpen, error, location,
                  locationError, isLocationBannerDismissed,
                  showLocationInstructions, pending, clock, nCalls, origin,
                  storage, storeAvailable >>
  /\ closure' = [messages |-> messages', preferences |-> preferences', location |-> location']

savePreferences(p) ==
  /\ isSettingsOpen
  /\ preferences' = p
  /\ storage' = setValue(storage, "userPrefs", stringifyPreferences(preferences'))
  /\ UNCHANGED << messages, isLoading, isSettingsOpen, error, location,
                  locationError, isLocationBannerDismissed,
                  showLocationInstructions, pending, clock, nCalls, origin,
                  storeAvailable >>
  /\ Render

(* The location provider delivers a result.                                *)
locationUpdate(r) ==
  /\ location = None
  /\ location' = r.location
  /\ locationError' = r.locationError
  /\ UNCHANGED << messages, preferences, isLoading, isSettingsOpen, error,
                  isLocationBannerDismissed, showLocationInstructions, pending,
                  clock, nCalls, origin,
                  storage, storeAvailable >>
  /\ Render

(* The page is loaded again: the component mounts anew, its state hooks    *)
(* take their initial values, the two persisted ones read from the store,  *)
(* and a gateway call still pending is abandoned.                          *)
Reload ==
  /\ messages' = storedMessages(storage)
  /\ preferences' = storedPreferences(storage)
  /\ isLoading' = FALSE
  /\ isSettingsOpen' = FALSE
  /\ error' = None
  /\ location' = None
  /\ locationError' = None
  /\ isLocationBannerDismissed' = FALSE
  /\ showLocationInstructions' = FALSE
  /\ pending' = {}
  /\ origin' = [i \in 1..Len(messages') |-> 0]
  /\ UNCHANGED << clock, nCalls, storage, storeAvailable >>
  /\ Render

(* Date.now() never runs backwards: a handler reads the last value read or *)
(* a later one.                                                            *)
ClockValues == clock..MaxClock

Send ==
  \E text \in Texts, imageBase64 \in Images, now \in ClockValues :
    handleSend(text, imageBase64, now)
GatewayResponds ==
  \E call \in pending, outcome \in GatewayOutcomes, now \in ClockValues :
    handleResponse(call, outcome, now)
SaveSettings == \E p \in PreferenceChoices : savePreferences(p)
LocationProvider == \E r \in LocationResults : locationUpdate(r)

Next ==
  \/ Send
  \/ GatewayResponds
  \/ clearHistory
  \/ dismissBanner
  \/ toggleInstructions
  \/ openSettings
  \/ closeSettings
  \/ SaveSettings
  \/ LocationProvider

Spec == Init /\ [][Next]_vars

(* The send lifecycle on its own: sends at any time, responses in any      *)
(* order, clearHistory at any time.                                        *)
ControllerNext ==
  \/ Send
  \/ GatewayResponds
  \/ clearHistory

ControllerSpec == Init /\ [][ControllerNext]_vars

(* Every gateway call eventually resolves.                                 *)
FairSpec == ControllerSpec /\ WF_vars(GatewayResponds)

(* The component as rendered: the input box gets isLoading and offers no   *)
(* send while it is true.                                                  *)
InputSend == ~isLoading /\ Send

AppNext ==
  \/ InputSend
  \/ GatewayResponds
  \/ clearHistory
  \/ dismissBanner
  \/ toggleInstructions
  \/ openSettings
  \/ closeSettings
  \/ SaveSettings
  \/ LocationProvider

AppSpec == Init /\ [][AppNext]_vars

(* From an empty list: sends issued one after the other, each after the    *)
(* previous one has resolved, and no clearHistory.                         *)
InitFresh == Init /\ messages = << >>

SequentialNext ==
  \/ (pending = {} /\ Send)
  \/ GatewayResponds
  \/ dismissBanner
  \/ toggleInstructions
  \/ openSettings
  \/ closeSettings
  \/ SaveSettings
  \/ LocationProvider

SequentialSpec == InitFresh /\ [][SequentialNext]_vars

(* Sends racing with other events: a send at any time, also while calls   *)
(* are pending, responses in any order, clearHistory and changes of the    *)
(* preferences at any time.                                                *)
RaceNext ==
  \/ Send
  \/ GatewayResponds
  \/ clearHistory
  \/ openSettings
  \/ SaveSettings

RaceSpec == Init /\ [][RaceNext]_vars

(* Persistence on its own: the session starts on any store (one that      *)
(* cannot be used, or one holding under each key nothing, a text that does *)
(* not parse, or an earlier session's value), the list and the preferences *)
(* change, and the page is loaded again at any point.                      *)
InitStorage ==
  /\ storeAvailable \in BOOLEAN
  /\ storage \in
       IF storeAvailable
         THEN [ chatHistory : {Absent, Malformed}
                                \cup {Json(stringifyMessages(StoredHistory(n))) :
                                        n \in StoredLengths},
                userPrefs : {Absent, Malformed} ]
         ELSE {[chatHistory |-> Absent, userPrefs |-> Absent]}
  /\ messages = storedMessages(storage)
  /\ preferences = storedPreferences(storage)
  /\ isLoading = FALSE
  /\ isSettingsOpen = FALSE
  /\ error = None
  /\ location = None
  /\ locationError = None
  /\ isLocationBannerDismissed = FALSE
  /\ showLocationInstructions = FALSE
  /\ closure = [messages |-> messages, preferences |-> preferences, location |-> location]
  /\ pending = {}
  /\ clock = 0
  /\ nCalls = 0
  /\ origin = [i \in 1..Len(messages) |-> 0]

StorageNext ==
  \/ InputSend
  \/ GatewayResponds
  \/ clearHistory
  \/ openSettings
  \/ SaveSettings
  \/ Reload

StorageSpec == InitStorage /\ [][StorageNext]_vars

\* ------------------------------------------------------------------ claims
(* The steps of a send, told apart by what they do to the calls.           *)
SendStep == nCalls' = nCalls + 1
ResponseStep == \E call \in pending : call \notin pending'
IsPrefix(s, t) == Len(s) <= Len(t) /\ SubSeq(t, 1, Len(s)) = s

(* C1: at most one gateway call is in flight at any time: a send issued    *)
(* while the loading flag is true appends no message and starts no second  *)
(* gateway call.                                                           *)
C1_OneCallInFlight ==
  /\ [](Cardinality(pending) <= 1)
  /\ [][isLoading => (~SendStep /\ pending' \subseteq pending)]_vars

(* C2: from an empty list, with each send issued after the previous one    *)
(* has resolved and no clearHistory, the list after the N-th send has      *)
(* resolved holds 2N messages in call order: the user message of the k-th  *)
(* send at 2k-1 and the ai reply to it at 2k.                              *)
C2_SequentialSendsAlternate ==
  pending = {} =>
    /\ Len(messages) = 2 * nCalls
    /\ \A k \in 1..nCalls :
         /\ messages[2 * k - 1].sender = "user"
         /\ origin[2 * k - 1] = k
         /\ messages[2 * k].sender = "ai"
         /\ origin[2 * k] = k

C2_Witness ==
  /\ pending = {}
  /\ nCalls = 2
  /\ Len(messages) = 4
  /\ messages[2].isError = Some(TRUE)
  /\ messages[4].isError = None

(* C3: the recentHistory a send passes to the gateway is the last          *)
(* min(5, n) messages, in order, of the list as it stood before the send   *)
(* appended its own user message (n its length): never more than 5, and    *)
(* never the user message of this send.                                    *)
C3_RecentHistoryIsPriorWindow ==
  [][SendStep =>
       \A call \in pending' \ pending :
         LET n == Len(messages)
             h == call.recentHistory
         IN /\ Len(h) = Min(5, n)
            /\ Len(h) <= 5
            /\ \A i \in 1..Len(h) : h[i] = messages[n - Len(h) + i]
            /\ Len(messages') = n + 1
            /\ \A i \in 1..Len(h) : h[i] = messages'[n - Len(h) + i]]_vars

C3_Witness ==
  \E call \in pending :
    /\ Len(call.recentHistory) = 5
    /\ Len(messages) > 7
    /\ call.recentHistory[5].sender = "ai"
    /\ call.recentHistory[5].id > 0

(* C4: every send returns the controller to Idle: the step that handles    *)
(* the gateway's answer, success or failure, sets the loading flag to      *)
(* false, and if every gateway call eventually resolves, a state with the  *)
(* loading flag true is followed by one with it false.                     *)
C4_ReturnsToIdle ==
  /\ [][ResponseStep => ~isLoading']_vars
  /\ isLoading ~> ~isLoading

C4_Witness ==
  /\ ~isLoading
  /\ pending = {}
  /\ nCalls > 0
  /\ error # None

(* C5: a gateway failure with message m appends exactly one ai message     *)
(* with isError and the text "Sorry, I encountered an error. Please try    *)
(* again. (m)" and sets error to "Failed to get response from AI: m"; a    *)
(* success with text t appends exactly one ai message with text t and no   *)
(* isError and does not set error; no call is answered twice.              *)
C5_ReplyFollowsOutcome ==
  [][\A call \in pending, outcome \in GatewayOutcomes, now \in ClockValues :
       handleResponse(call, outcome, now) =>
         /\ Len(messages') = Len(messages) + 1
         /\ IsPrefix(messages, messages')
         /\ call \notin pending'
         /\ LET reply == messages'[Len(messages')]
            IN /\ reply.sender = "ai"
               /\ outcome.kind = "Error" =>
                    /\ reply.isError = Some(TRUE)
                    /\ reply.text = "Sorry, I encountered an error. Please try again. ("
                                      \o outcome.payload \o ")"
                    /\ error' = Some("Failed to get response from AI: " \o outcome.payload)
               /\ outcome.kind = "text" =>
                    /\ reply.isError = None
                    /\ reply.text = outcome.payload
                    /\ error' = error]_vars

C5_Witness ==
  /\ Len(messages) > 1
  /\ messages[Len(messages)].isError = Some(TRUE)
  /\ messages[Len(messages)].text
       = "Sorry, I encountered an error. Please try again. (Network down)"
  /\ error = Some("Failed to get response from AI: Network down")

(* C6: clearHistory can run in every state, Idle or Sending, and leaves    *)
(* the message list empty whatever it held; preferences, location, the     *)
(* loading flag, the error field and the banner flags stay as they were.   *)
C6_ClearHistoryEmptiesOnlyTheList ==
  /\ [](ENABLED clearHistory)
  /\ [][clearHistory =>
          /\ messages' = << >>
          /\ UNCHANGED << preferences, location, isLoading, error,
                          isLocationBannerDismissed, showLocationInstructions >>]_vars

C6_Witness ==
  /\ messages = << >>
  /\ nCalls > 0
  /\ isLoading
  /\ preferences # DefaultPreferences
  /\ isLocationBannerDismissed

(* C7: the message list is append-only between clears: every step leaves   *)
(* it as it was, appends exactly one message at its end, or empties it.    *)
C7_AppendOnly ==
  [][\/ messages' = messages
     \/ /\ Len(messages') = Len(messages) + 1
        /\ IsPrefix(messages, messages')
     \/ messages' = << >>]_vars

C7_Witness ==
  /\ Len(messages) = 4
  /\ \A i \in 1..4 : origin[i] > 0
  /\ messages[1].id >= 0

(* C8: the ids of the messages in the list are pairwise distinct, for any  *)
(* timing of sends and gateway responses.                                  *)
C8_UniqueIds ==
  \A i, j \in 1..Len(messages) : i # j => messages[i].id # messages[j].id

(* C9: the banner is visible iff locationError contains "denied" and the   *)
(* banner is not dismissed; bannerDismissed starts false and, once true,   *)
(* is never false again, so after dismiss the banner is never visible,     *)
(* whatever locationError becomes; without "denied" it is never visible.   *)
C9_BannerVisibility ==
  /\ ~isLocationBannerDismissed
  /\ [](showLocationBanner <=>
          /\ locationError = Some("Location access denied by user.")
          /\ ~isLocationBannerDismissed)
  /\ [](isLocationBannerDismissed => ~showLocationBanner)
  /\ [](locationError \in {None, Some("Location unavailable.")} => ~showLocationBanner)
  /\ [][dismissBanner => isLocationBannerDismissed']_vars
  /\ [][isLocationBannerDismissed => isLocationBannerDismissed']_vars

C9_Witness ==
  /\ isLocationBannerDismissed
  /\ locationError = Some("Location access denied by user.")
  /\ ~showLocationBanner

(* C10: the error field is cleared by the next send: the first step of a   *)
(* send sets it to null, it becomes non-null only when a gateway call      *)
(* fails, it is null whenever the loading flag is true, and it is null     *)
(* after a send that resolves successfully.                                *)
C10_ErrorClearedBySend ==
  /\ [][SendStep => error' = None]_vars
  /\ [][(error = None /\ error' # None) => ResponseStep]_vars
  /\ [](isLoading => error = None)
  /\ [][\A call \in pending, outcome \in GatewayOutcomes, now \in ClockValues :
          (outcome.kind = "text" /\ handleResponse(call, outcome, now))
            => error' = None]_vars

(* C11: a gateway failure leaves prior state intact: the step that handles *)
(* it keeps the list as a prefix of the new list, which has the error      *)
(* message added and nothing else; preferences, location and the banner    *)
(* flags are unchanged; besides that only the error field is set and the   *)
(* loading flag goes to false.                                             *)
C11_FailureKeepsPriorState ==
  [][\A call \in pending, outcome \in GatewayOutcomes, now \in ClockValues :
       (outcome.kind # "text" /\ handleResponse(call, outcome, now)) =>
         /\ IsPrefix(messages, messages')
         /\ Len(messages') = Len(messages) + 1
         /\ messages'[Len(messages')].isError = Some(TRUE)
         /\ UNCHANGED << preferences, location, locationError,
                         isLocationBannerDismissed, showLocationInstructions,
                         isSettingsOpen >>
         /\ error' # None
         /\ ~isLoading']_vars

C11_Witness ==
  /\ Len(messages) > 2
  /\ messages[Len(messages)].isError = Some(TRUE)
  /\ messages[Len(messages) - 2].sender = "ai"
  /\ error # None
  /\ ~isLoading
  /\ preferences # DefaultPreferences
  /\ location # None

(* C12: the loading flag is true in exactly the states where a gateway     *)
(* call is pending.                                                        *)
C12_LoadingIffPending == isLoading <=> pending # {}

(* C13: preferences persist and round-trip while the store can be used: a *)
(* session that finds nothing under userPrefs reads {name: "User",         *)
(* communicationStyle: "friendly and helpful"}; setPreferences(p) makes p  *)
(* the preferences in memory and, if the store can be used, leaves the     *)
(* serialization of p under userPrefs; a session started from a usable     *)
(* store reads the preferences of the session before it verbatim.          *)
C13_PreferencesRoundTrip ==
  /\ storage.userPrefs.kind = "absent" => preferences = DefaultPreferences
  /\ [][\A p \in PreferenceChoices :
          savePreferences(p) =>
            /\ preferences' = p
            /\ storeAvailable =>
                 /\ storage'.userPrefs = Json(stringifyPreferences(p))
                 /\ storedPreferences(storage') = p]_vars
  /\ [][Reload =>
          /\ storage.userPrefs.kind = "absent" => preferences' = DefaultPreferences
          /\ storeAvailable => preferences' = preferences]_vars

(* C13 as stated: after setPreferences(p), for any p and any store, the    *)
(* value under userPrefs is p and a new session reads p.                   *)
C13_PreferencesAlwaysStored ==
  /\ storage.userPrefs.kind = "absent" => preferences = DefaultPreferences
  /\ [][\A p \in PreferenceChoices :
          savePreferences(p) =>
            /\ storage'.userPrefs = Json(stringifyPreferences(p))
            /\ storedPreferences(storage') = p]_vars
  /\ [][Reload => preferences' = preferences]_vars

(* Settings are closed only by loading the page again here, and no session *)
(* starts on stored preferences other than the default: the changed        *)
(* preferences were saved and then read back by a new session.             *)
C13_Witness ==
  /\ storeAvailable
  /\ preferences = [name |-> "Ana", communicationStyle |-> "terse"]
  /\ ~isSettingsOpen
  /\ storage.userPrefs = Json(stringifyPreferences(preferences))

(* C14: while the store can be used the message list is written through   *)
(* on every mutation: after every append (user message, ai reply, error    *)
(* reply) and after clearHistory the value under chatHistory is the        *)
(* serialization of the list in memory, and a session reloaded at any      *)
(* point, a gateway call pending or not, starts with the list of that      *)
(* point; with nothing or a malformed text under chatHistory, or a store   *)
(* that cannot be used, the list starts as the empty sequence.             *)
C14_WrittenThrough ==
  /\ storage.chatHistory.kind # "json" => messages = << >>
  /\ [][(Send \/ GatewayResponds \/ clearHistory) =>
          (storeAvailable =>
             /\ storage'.chatHistory = Json(stringifyMessages(messages'))
             /\ storedMessages(storage') = messages')]_vars
  /\ [][Reload =>
          /\ storeAvailable => messages' = messages
          /\ storage.chatHistory.kind # "json" => messages' = << >>
          /\ ~storeAvailable => messages' = << >>]_vars

(* C14 as stated: on any store, every mutation leaves the list under       *)
(* chatHistory and a reload at any point starts with the list of that      *)
(* point.                                                                  *)
C14_AlwaysWrittenThrough ==
  /\ storage.chatHistory.kind # "json" => messages = << >>
  /\ [][(Send \/ GatewayResponds \/ clearHistory) =>
          /\ storage'.chatHistory = Json(stringifyMessages(messages'))
          /\ storedMessages(storage') = messages']_vars
  /\ [][Reload =>
          /\ messages' = messages
          /\ storage.chatHistory.kind # "json" => messages' = << >>]_vars

(* A list that ends with this session's user message and has no call       *)
(* pending was read back by a reload during the call; an error reply not   *)
(* appended by a call of this page load was read back too.                 *)
C14_Witness ==
  /\ storeAvailable
  /\ pending = {}
  /\ Len(messages) > 1
  /\ messages[Len(messages)].sender = "user"
  /\ messages[Len(messages)].id >= 0
  /\ \E i \in 1..Len(messages) : messages[i].isError = Some(TRUE) /\ origin[i] = 0

(* C15: the instructions toggle flips showLocationInstructions, false at   *)
(* the start, and changes nothing else: the dismissal and the visibility   *)
(* of the banner are the same before and after it; dismissing the banner   *)
(* does not change showLocationInstructions.                               *)
C15_ToggleFlipsOnlyInstructions ==
  /\ ~showLocationInstructions
  /\ [][toggleInstructions =>
          /\ showLocationInstructions' = ~showLocationInstructions
          /\ isLocationBannerDismissed' = isLocationBannerDismissed
          /\ showLocationBanner' = showLocationBanner
          /\ UNCHANGED << messages, preferences, isLoading, isSettingsOpen,
                          error, location, locationError, pending, storage >>]_vars
  /\ [][dismissBanner => showLocationInstructions' = showLocationInstructions]_vars

C15_Witness ==
  /\ showLocationInstructions
  /\ isLocationBannerDismissed
  /\ ~showLocationBanner

(* C16: every ai message is a reply to a user message still in the list    *)
(* before it: every prefix of the message list holds at most as many ai    *)
(* messages as user messages.                                              *)
C16_RepliesFollowUserMessages ==
  \A n \in 1..Len(messages) :
    Cardinality({i \in 1..n : messages[i].sender = "ai"})
      <= Cardinality({i \in 1..n : messages[i].sender = "user"})

(* C17: each send appends exactly one user message and, when its call     *)
(* resolves, exactly one ai reply at the end of the list, so after its     *)
(* user message, whatever happens while the call is pending: no call is    *)
(* answered twice, no other event appends, and every step other than       *)
(* clearHistory keeps the number of messages plus the number of pending    *)
(* calls minus twice the number of sends as it was, so that with no        *)
(* clearHistory a list that was empty holds twice as many messages as      *)
(* sends were started once no call is pending.                             *)
Balance == Len(messages) + Cardinality(pending) - 2 * nCalls

C18_BannerOrInline ==
  /\ ~(showLocationBanner /\ showInlineLocationError)
  /\ locationError = Some("Location access denied by user.") =>
       /\ ~showInlineLocationError
       /\ showLocationBanner <=> ~isLocationBannerDismissed
  /\ locationError = Some("Location unavailable.") =>
       /\ showInlineLocationError
       /\ ~showLocationBanner
  /\ locationError = None => (~showInlineLocationError /\ ~showLocationBanner)

C18_Witness ==
  /\ locationError = Some("Location unavailable.")
  /\ isLocationBannerDismissed
  /\ showInlineLocationError

(* C19: no step of a send (its start, the handling of a success, the       *)
(* handling of a failure) changes preferences, location, locationError,    *)
(* the banner flags or the settings flag; the preferences and location     *)
(* passed to the gateway are those current when the send is issued.        *)
C19_SendTouchesOnlyItsFields ==
  /\ [][(Send \/ GatewayResponds) =>
          UNCHANGED << preferences, location, locationError,
                       isLocationBannerDismissed, showLocationInstructions,
                       isSettingsOpen >>]_vars
  /\ [][SendStep =>
          \A call \in pending' \ pending :
            /\ call.preferences = preferences
            /\ call.location = location]_vars

C19_Witness ==
  \E call \in pending :
    /\ call.preferences = [name |-> "Ana", communicationStyle |-> "terse"]
    /\ call.location = Some(Coordinates)
    /\ isSettingsOpen
    /\ isLocationBannerDismissed

====
